---- MODULE Spec2Model ----
(***************************************************************************)
(* Model of internal/api/rust/matrix_sdk_ffi/matrix_sdk_ffi.c:             *)
(*                                                                         *)
(*   void cgo_rust_task_callback_bridge_matrix_sdk_ffi(                    *)
(*       RustTaskCallback cb, const void * taskData, int8_t status) {      *)
(*     cb(taskData, status);                                               *)
(*   }                                                                     *)
(*                                                                         *)
(* The C abstract machine is modelled as one call stack per thread.  A     *)
(* trampoline activation is a frame holding its three by-value parameters  *)
(* and a program counter; the callable it forwards to is a frame pushed on *)
(* top of it.  The callables, their callers and the heap are the external  *)
(* collaborators of the file.  The variable calls is a history variable:   *)
(* for every trampoline call it keeps the triple the caller supplied and   *)
(* the events that happened on behalf of that call.                        *)
(***************************************************************************)
EXTENDS Integers, Sequences, FiniteSets, Bags, TLC

VARIABLES stack, calls, fault, recorded, live

vars == <<stack, calls, fault, recorded, live>>

\* ------------------------------------------------------------------ bounds
NumThreads == 2
MaxCalls == 2
MaxDepth == 2
MaxStatusCalls == 1

Threads == 1..NumThreads

\* ------------------------------------------------------- the value domains
\* int8_t: the type of the parameter status.
Int8 == -128..127

\* Conversion of an integer to int8_t, as done when a value is passed for a
\* parameter of type int8_t (two's complement wrap; the identity on Int8).
ToInt8(v) == ((v + 128) % 256) - 128

\* Conversion a callee declared with an unsigned byte would apply.
ToUInt8(v) == v % 256

\* The statuses tried where the whole range is not enumerated.
StatusSample == {-1, 0}

\* The status tried where the callables of every kind are.
FaultStatus == {-1}

\* const void * taskData: opaque handles; 0 is the null handle, the others
\* are addresses of objects of the caller (0x1000).
NullCtx == 0
Contexts == {NullCtx, 4096}

\* RustTaskCallback values.  The valid ones point to functions of the
\* expected signature, which record the arguments of each call and either
\* return or fail; "NULL" is the null function pointer and "dangling" a
\* non-null value that points to no function.
ValidCallables == {"recA", "recB"}
InvalidCallables == {"NULL", "dangling"}
Callables == ValidCallables \cup InvalidCallables

\* How a callable that fails may fail.
FailKinds == {"trap", "abort"}

\* Calling through a function pointer that designates no function is
\* undefined behaviour.  The statement compiles to an indirect branch: for
\* the null pointer the branch target is the unmapped page at address 0,
\* which faults; for another invalid value the target is arbitrary, so the
\* branch may fault or land in code that returns to the trampoline.
UBOutcomes(cb) == IF cb = "NULL" THEN {"fault"} ELSE {"fault", "stray"}

NoFault == [site |-> "none", kind |-> "none", cb |-> "none"]

\* ----------------------------------------------------------------- helpers
Top(t) == stack[t][Len(stack[t])]

Pop(s) == SubSeq(s, 1, Len(s) - 1)

SetTopPc(s, pc) == [s EXCEPT ![Len(s)].pc = pc]

Running(t) == fault[t] = NoFault

TotalCalls == LET S[n \in 0..NumThreads] ==
                    IF n = 0 THEN 0 ELSE S[n - 1] + Len(calls[n])
              IN S[NumThreads]

\* Number of trampoline activations on thread t's stack.
Depth(t) == Cardinality({i \in 1..Len(stack[t]) : stack[t][i].fn = "tramp"})

\* An event of a call's history, with the arguments the acting frame holds.
Ev(e, t, fr) == [e |-> e, by |-> t, cb |-> fr.cb, ctx |-> fr.taskData,
                 status |-> fr.status, kind |-> "none"]

Log(t, idx, ev) == [calls EXCEPT ![t][idx].ev = Append(@, ev)]

\* -------------------------------------------------------------------- Init
Init ==
    /\ stack = [t \in Threads |-> <<>>]
    /\ calls = [t \in Threads |-> <<>>]
    /\ fault = [t \in Threads |-> NoFault]
    /\ recorded = [f \in ValidCallables |-> EmptyBag]
    /\ live = Contexts \ {NullCtx}

\* --------------------------------------------------- the caller's call
\* A call of cgo_rust_task_callback_bridge_matrix_sdk_ffi(cb, data, st) by
\* thread t on behalf of the enclosing call parent (0: none): a new
\* activation whose parameters hold the argument values.
Enter(t, cb, data, st, parent) ==
    LET idx == Len(calls[t]) + 1
        fr  == [fn |-> "tramp", idx |-> idx, cb |-> cb, taskData |-> data,
                status |-> ToInt8(st), pc |-> "entry"]
        rec == [cb |-> cb, taskData |-> data, status |-> st,
                parent |-> parent, ev |-> <<Ev("tramp_enter", t, fr)>>]
    IN /\ stack' = [stack EXCEPT ![t] = Append(@, fr)]
       /\ calls' = [calls EXCEPT ![t] = Append(@, rec)]
       /\ UNCHANGED <<fault, recorded, live>>

\* A thread with an empty stack calls the trampoline with a triple drawn
\* from the given sets.  The threads are interchangeable, so they are
\* numbered in the order of their first calls.
TopCall(t, cbs, ctxs, sts, limit) ==
    /\ Running(t)
    /\ stack[t] = <<>>
    /\ TotalCalls < limit
    /\ \A u \in 1..(t - 1) : calls[u] # <<>>
    /\ \E cb \in cbs, data \in ctxs, st \in sts : Enter(t, cb, data, st, 0)

\* A running callable calls the trampoline before it returns.
NestedCall(t, cbs, ctxs, sts) ==
    /\ Running(t)
    /\ stack[t] # <<>>
    /\ Top(t).fn = "cb"
    /\ Top(t).pc = "ran"
    /\ TotalCalls < MaxCalls
    /\ Depth(t) < MaxDepth
    /\ \E cb \in cbs, data \in ctxs, st \in sts :
          Enter(t, cb, data, st, Top(t).idx)

\* ------------------------------------------------- line 7: cb(taskData, status)
\* The activation whose parameters the statement reads: the executing
\* thread's own (parameters have automatic storage).
\* Variant: the parameters are kept in storage shared by all activations,
\* so the statement reads those of the latest activation still at line 7.
ArgFrame_Shared(t) ==
    LET at == {u \in Threads : stack[u] # <<>> /\ Top(u).fn = "tramp"
                                 /\ Top(u).pc = "entry"}
    IN Top(CHOOSE u \in at : \A v \in at : u >= v)

ArgFrame(t) == Top(t)

\* The three values of the call expression.
\* Variant: the callable of the thread's first call is kept and called
\* again by the later calls.
ForwardedCb_Retained(fr) ==
    IF \E t \in Threads : Len(calls[t]) > 1 /\ calls[t][1].cb \in ValidCallables
          /\ fr \in {stack[t][i] : i \in 1..Len(stack[t])} /\ fr.idx > 1
    THEN LET t == CHOOSE u \in Threads :
                     Len(calls[u]) > 1 /\ calls[u][1].cb \in ValidCallables
                     /\ fr \in {stack[u][i] : i \in 1..Len(stack[u])}
         IN calls[t][1].cb
    ELSE fr.cb

ForwardedCb(fr) == fr.cb

\* Variant: a null context is replaced by a default object.
ForwardedCtx_NullSubstituted(fr) ==
    IF fr.taskData = NullCtx THEN 4096 ELSE fr.taskData

ForwardedCtx(fr) == fr.taskData

\* Variant: the status is passed as an unsigned byte.
ForwardedStatus_Unsigned(fr) == ToUInt8(fr.status)

\* Variant: the status of the first call made is kept and passed again.
ForwardedStatus_Cached(fr) ==
    LET made == {t \in Threads : calls[t] # <<>>}
    IN calls[CHOOSE t \in made : \A u \in made : t <= u][1].status

ForwardedStatus(fr) == ToInt8(fr.status)

\* The frame of the callee as the call creates it.
CalleeFrame(t) ==
    LET a == ArgFrame(t)
    IN [fn |-> "cb", idx |-> Top(t).idx, cb |-> ForwardedCb(a),
        taskData |-> ForwardedCtx(a), status |-> ForwardedStatus(a),
        pc |-> "body"]

\* Control is at the statement of line 7 in thread t's top activation.
AtLine7(t) ==
    /\ Running(t)
    /\ stack[t] # <<>>
    /\ Top(t).fn = "tramp"
    /\ Top(t).pc = "entry"

\* The call proper: control enters the function, on the same thread, with
\* the two arguments; the trampoline waits for it.
Invoke(t) ==
    /\ stack' = [stack EXCEPT ![t] = Append(SetTopPc(@, "called"), CalleeFrame(t))]
    /\ calls' = Log(t, Top(t).idx, Ev("cb_enter", t, CalleeFrame(t)))
    /\ UNCHANGED <<fault, recorded, live>>

\* The statement left without a call.
Skip(t) ==
    /\ stack' = [stack EXCEPT ![t] = SetTopPc(@, "after")]
    /\ UNCHANGED <<calls, fault, recorded, live>>

\* Variant: the callable is called only for the success status.
ForwardValid_OnlyOnSuccess(t) ==
    /\ AtLine7(t)
    /\ ForwardedCb(ArgFrame(t)) \in ValidCallables
    /\ IF Top(t).status = 0 THEN Invoke(t) ELSE Skip(t)

\* Variant: a call made while another activation of the thread is waiting
\* for its callable is dropped (a busy flag).
ForwardValid_Guarded(t) ==
    /\ AtLine7(t)
    /\ ForwardedCb(ArgFrame(t)) \in ValidCallables
    /\ IF Depth(t) > 1 THEN Skip(t) ELSE Invoke(t)

\* Variant: a callable that failed is called a second time.
ForwardValid_Retry(t) ==
    \/ /\ AtLine7(t)
       /\ ForwardedCb(ArgFrame(t)) \in ValidCallables
       /\ Invoke(t)
    \/ /\ fault[t].site = "callable"
       /\ Top(t).fn = "cb"
       /\ Cardinality({k \in 1..Len(calls[t][Top(t).idx].ev) :
                          calls[t][Top(t).idx].ev[k].e = "cb_enter"}) = 1
       /\ fault' = [fault EXCEPT ![t] = NoFault]
       /\ stack' = [stack EXCEPT ![t] = SetTopPc(@, "body")]
       /\ calls' = Log(t, Top(t).idx, Ev("cb_enter", t, Top(t)))
       /\ UNCHANGED <<recorded, live>>

\* The statement with a callable that designates a function: executed
\* once per activation, unconditionally.
ForwardValid(t) ==
    /\ AtLine7(t)
    /\ ForwardedCb(ArgFrame(t)) \in ValidCallables
    /\ Invoke(t)

\* The statement with a callable that designates no function: undefined
\* behaviour, any outcome of the indirect branch.
ForwardInvalid(t) ==
    /\ AtLine7(t)
    /\ ForwardedCb(ArgFrame(t)) \in InvalidCallables
    /\ \E o \in UBOutcomes(ForwardedCb(ArgFrame(t))) :
          \/ /\ o = "fault"
             /\ fault' = [fault EXCEPT ![t] =
                    [site |-> "call_site", kind |-> "segv",
                     cb |-> ForwardedCb(ArgFrame(t))]]
             /\ calls' = Log(t, Top(t).idx, Ev("ub_fault", t, Top(t)))
             /\ UNCHANGED <<stack, recorded, live>>
          \/ /\ o = "stray"
             /\ stack' = [stack EXCEPT ![t] = SetTopPc(@, "after")]
             /\ calls' = Log(t, Top(t).idx, Ev("ub_stray", t, Top(t)))
             /\ UNCHANGED <<fault, recorded, live>>

\* ------------------------------------------------------------ the callable
\* The callable's body runs: it records the arguments it was called with,
\* and, as the owner of the context, may release the object behind it.
CbRun(t) ==
    /\ Running(t)
    /\ stack[t] # <<>>
    /\ Top(t).fn = "cb"
    /\ Top(t).pc = "body"
    /\ recorded' = [recorded EXCEPT ![Top(t).cb] =
                        @ (+) SetToBag({<<Top(t).taskData, Top(t).status>>})]
    /\ \E release \in {FALSE} \cup {Top(t).taskData \in live} :
          live' = IF release THEN live \ {Top(t).taskData} ELSE live
    /\ stack' = [stack EXCEPT ![t] = SetTopPc(@, "ran")]
    /\ UNCHANGED <<calls, fault>>

\* What the trampoline's activation does with a failure of its callee: the
\* statement of line 7 has no handler, the failure passes it unchanged.
\* Variant: the failure is caught and reported as an error of the
\* trampoline.
PassFailure_Translated(f) == [f EXCEPT !.site = "call_site", !.kind = "error"]

PassFailure(f) == f

\* The callable fails (raises, traps, aborts): the failure stops the thread
\* where it is.
CbFail(t) ==
    /\ Running(t)
    /\ stack[t] # <<>>
    /\ Top(t).fn = "cb"
    /\ Top(t).pc = "body"
    /\ \E k \in FailKinds :
          /\ fault' = [fault EXCEPT ![t] =
                 PassFailure([site |-> "callable", kind |-> k, cb |-> Top(t).cb])]
          /\ calls' = Log(t, Top(t).idx,
                          [Ev("cb_fail", t, Top(t)) EXCEPT !.kind = k])
    /\ UNCHANGED <<stack, recorded, live>>

\* The callable returns: control is back in the trampoline after line 7.
CbReturn(t) ==
    /\ Running(t)
    /\ stack[t] # <<>>
    /\ Top(t).fn = "cb"
    /\ Top(t).pc = "ran"
    /\ stack' = [stack EXCEPT ![t] = SetTopPc(Pop(@), "after")]
    /\ calls' = Log(t, Top(t).idx, Ev("cb_return", t, Top(t)))
    /\ UNCHANGED <<fault, recorded, live>>

\* ----------------------------------------------------------- line 8: return
\* The trampoline may return once the statement of line 7 has completed.
\* Variant: the call is handed to a queue and the trampoline returns
\* without waiting for it.
CanReturn_Deferred(fr) == fr.fn = "tramp" /\ fr.pc \in {"entry", "after"}

CanReturn(fr) == fr.fn = "tramp" /\ fr.pc = "after"

Return(t) ==
    /\ Running(t)
    /\ stack[t] # <<>>
    /\ CanReturn(Top(t))
    /\ stack' = [stack EXCEPT ![t] = Pop(@)]
    /\ calls' = Log(t, Top(t).idx, Ev("tramp_return", t, Top(t)))
    /\ UNCHANGED <<fault, recorded, live>>

\* ---------------------------------------------------------- specifications
\* Several threads, callables that designate functions.
Next ==
    \E t \in Threads :
       \/ TopCall(t, ValidCallables, Contexts, StatusSample, MaxCalls)
       \/ NestedCall(t, ValidCallables, Contexts, StatusSample)
       \/ ForwardValid(t)
       \/ CbRun(t)
       \/ CbFail(t)
       \/ CbReturn(t)
       \/ Return(t)

Spec == Init /\ [][Next]_vars

\* Several threads, every kind of callable.
NextFault ==
    \E t \in Threads :
       \/ TopCall(t, Callables, Contexts, FaultStatus, MaxCalls)
       \/ NestedCall(t, Callables, Contexts, FaultStatus)
       \/ ForwardValid(t)
       \/ ForwardInvalid(t)
       \/ CbRun(t)
       \/ CbFail(t)
       \/ CbReturn(t)
       \/ Return(t)

SpecFault == Init /\ [][NextFault]_vars

\* One thread, every status of the int8_t range.
NextStatus ==
    \/ TopCall(1, {"recA"}, Contexts, Int8, MaxStatusCalls)
    \/ ForwardValid(1)
    \/ CbRun(1)
    \/ CbReturn(1)
    \/ Return(1)

SpecStatus == Init /\ [][NextStatus]_vars

\* ------------------------------------------------- reading the history
CallIds == UNION {{<<t, i>> : i \in 1..Len(calls[t])} : t \in Threads}

CallOf(id) == calls[id[1]][id[2]]

\* The positions of c's history at which event e stands.
At(c, e) == {k \in 1..Len(c.ev) : c.ev[k].e = e}

Names(c) == [k \in 1..Len(c.ev) |-> c.ev[k].e]

IsPrefix(p, q) == Len(p) <= Len(q) /\ SubSeq(q, 1, Len(p)) = p

Returned(c) == At(c, "tramp_return") # {}

\* The event shows the arguments of call c.
OwnArgs(c, ev) ==
    ev.cb = c.cb /\ ev.ctx = c.taskData /\ ev.status = c.status

Quiescent == \A t \in Threads : stack[t] = <<>>

\* The (context, status) pairs the calls made so far supplied.
SuppliedPairs == {<<CallOf(id).taskData, CallOf(id).status>> : id \in CallIds}

\* How many of the calls made so far supplied (f, ctx, st).
Supplied(f, ctx, st) ==
    Cardinality({id \in CallIds : /\ CallOf(id).cb = f
                                  /\ CallOf(id).taskData = ctx
                                  /\ CallOf(id).status = st})

\* --------------------------------------------------------------------- C1
\* C1: a trampoline call with a valid callable invokes that callable
\* exactly once during the call, never twice and never zero times by the
\* time it returns, and the invocation observes the call's own context and
\* status; when all calls have returned, every recording callable has
\* recorded exactly the (context, status) pairs it was supplied with, each
\* as often as it was supplied.
C1_ExactlyOnceSameArgs ==
    /\ \A id \in CallIds :
          LET c == CallOf(id)
          IN c.cb \in ValidCallables =>
                /\ At(c, "cb_enter") \subseteq {2}
                /\ Returned(c) => At(c, "cb_enter") = {2}
                /\ \A k \in At(c, "cb_enter") : OwnArgs(c, c.ev[k])
    /\ Quiescent =>
          \A f \in ValidCallables :
             \A p \in BagToSet(recorded[f]) \cup SuppliedPairs :
                CopiesIn(p, recorded[f]) = Supplied(f, p[1], p[2])

\* The spec's scenario: one call with a recording callable, context 0x1000
\* and status -1 has returned, and the callable recorded exactly that call.
C1_Witness ==
    /\ Quiescent
    /\ \A t \in Threads \ {1} : calls[t] = <<>>
    /\ Len(calls[1]) = 1
    /\ calls[1][1].cb = "recA"
    /\ calls[1][1].taskData = 4096
    /\ calls[1][1].status = -1
    /\ Returned(calls[1][1])
    /\ recorded["recA"] = SetToBag({<<4096, -1>>})
    /\ recorded["recB"] = EmptyBag

\* --------------------------------------------------------------------- C2
\* C2: for every status of the signed 8-bit range, the boundaries -128 and
\* 127 included, the status the callable observes and records is the status
\* the caller supplied.
C2_StatusUnmodified ==
    \A id \in CallIds :
       LET c == CallOf(id)
       IN /\ c.status \in Int8
          /\ \A k \in At(c, "cb_enter") : c.ev[k].status = c.status
          /\ Returned(c) =>
                /\ At(c, "cb_enter") # {}
                /\ CopiesIn(<<c.taskData, c.status>>, recorded[c.cb]) >= 1
                /\ BagToSet(recorded[c.cb]) \subseteq SuppliedPairs

\* A call with the minimum status has returned and its callable saw -128.
C2_Witness ==
    \E id \in CallIds :
       LET c == CallOf(id)
       IN /\ c.status = -128
          /\ Returned(c)
          /\ \E k \in At(c, "cb_enter") : c.ev[k].status = -128
          /\ CopiesIn(<<c.taskData, -128>>, recorded[c.cb]) = 1

\* --------------------------------------------------------------------- C3
\* C3: the context the callable observes is the context the caller
\* supplied, the null handle and the address of a released object
\* included; the trampoline does not dereference it, so with a valid
\* callable no fault arises at the trampoline whatever the context.
C3_ContextOpaque ==
    /\ \A id \in CallIds :
          LET c == CallOf(id)
          IN c.cb \in ValidCallables =>
                /\ \A k \in At(c, "cb_enter") : c.ev[k].ctx = c.taskData
                /\ Len(c.ev) >= 2 => c.ev[2].e = "cb_enter"
                /\ At(c, "ub_fault") = {}
    /\ \A t \in Threads :
          fault[t].site = "call_site" => fault[t].cb \in InvalidCallables

\* A call with the null context and status 0 has returned, and its callable
\* observed (null, 0).
C3_Witness ==
    \E id \in CallIds :
       LET c == CallOf(id)
       IN /\ c.cb \in ValidCallables
          /\ c.taskData = NullCtx
          /\ c.status = 0
          /\ Returned(c)
          /\ c.ev[2].e = "cb_enter"
          /\ c.ev[2].ctx = NullCtx
          /\ c.ev[2].status = 0

\* --------------------------------------------------------------------- C4
\* The frames of thread t's stack carry the arguments of the calls thread t
\* made.
FramesOwn(t) ==
    \A i \in 1..Len(stack[t]) :
       LET fr == stack[t][i]
       IN /\ fr.idx \in 1..Len(calls[t])
          /\ fr.cb = calls[t][fr.idx].cb
          /\ fr.taskData = calls[t][fr.idx].taskData
          /\ fr.status = calls[t][fr.idx].status

\* The entries of callable f, over all calls of all threads: the call and
\* the position in its history.
Entries(f) ==
    UNION {{<<id, k>> : k \in {j \in At(CallOf(id), "cb_enter") :
                                  CallOf(id).ev[j].cb = f}} : id \in CallIds}

\* How often callable f has been entered.
Entered(f) == Cardinality(Entries(f))

\* The calls that supplied f and have executed the statement of line 7.
Forwarded(f) == {id \in CallIds : CallOf(id).cb = f /\ Len(CallOf(id).ev) >= 2}

\* C4: with several threads calling the trampoline concurrently, under
\* every interleaving each call's callable is entered at most once, exactly
\* once by the time the call returns, by the calling thread and with the
\* context and status of that call; every activation and every callable
\* frame on a thread's stack holds the triple of a call of that thread, and
\* no callable is entered on behalf of a call that did not supply it.
C4_NoCrossContamination ==
    /\ \A id \in CallIds :
          LET c == CallOf(id)
          IN /\ \A k \in 1..Len(c.ev) : c.ev[k].by = id[1]
             /\ \A k \in At(c, "cb_enter") : OwnArgs(c, c.ev[k])
             /\ Cardinality(At(c, "cb_enter")) <= 1
             /\ (Returned(c) /\ c.cb \in ValidCallables) =>
                   Cardinality(At(c, "cb_enter")) = 1
    /\ \A t \in Threads : FramesOwn(t)
    /\ \A f \in ValidCallables : Entered(f) = Cardinality(Forwarded(f))

\* Two threads are inside their callables at the same time, with triples
\* that differ in the callable, the context and the status.
C4_Witness ==
    /\ stack[1] # <<>>
    /\ stack[2] # <<>>
    /\ Top(1).fn = "cb"
    /\ Top(2).fn = "cb"
    /\ Top(1).cb # Top(2).cb
    /\ Top(1).taskData # Top(2).taskData
    /\ Top(1).status # Top(2).status
    /\ OwnArgs(calls[1][1], calls[1][1].ev[2])
    /\ OwnArgs(calls[2][1], calls[2][1].ev[2])

\* --------------------------------------------------------------------- C5
ForwardOrder == <<"tramp_enter", "cb_enter", "cb_return", "tramp_return">>

FailOrder == <<"tramp_enter", "cb_enter", "cb_fail">>

\* An activation waits at line 7 exactly while the frame of its callable
\* lies directly above it on the same stack.
Synchronous(t) ==
    \A i \in 1..Len(stack[t]) :
       LET fr == stack[t][i]
       IN /\ (fr.fn = "tramp" /\ fr.pc = "called") =>
                /\ i < Len(stack[t])
                /\ stack[t][i + 1].fn = "cb"
                /\ stack[t][i + 1].idx = fr.idx
          /\ (fr.fn = "tramp" /\ fr.pc # "called") => i = Len(stack[t])
          /\ fr.fn = "cb" =>
                /\ i > 1
                /\ stack[t][i - 1].fn = "tramp"
                /\ stack[t][i - 1].pc = "called"
                /\ stack[t][i - 1].idx = fr.idx

\* C5: the events of a call with a valid callable happen in the order
\* trampoline entered, callable entered, callable returned, trampoline
\* returned (or end with the callable's failure), all on the thread that
\* made the call; the trampoline does not return before its callable has
\* returned, and while the callable runs the trampoline's activation waits
\* directly below it on the same stack.
C5_SynchronousOrder ==
    /\ \A id \in CallIds :
          LET c == CallOf(id)
          IN c.cb \in ValidCallables =>
                /\ IsPrefix(Names(c), ForwardOrder) \/ Names(c) = FailOrder
                /\ \A k \in 1..Len(c.ev) : c.ev[k].by = id[1]
                /\ Returned(c) => At(c, "cb_return") # {}
    /\ \A t \in Threads : Synchronous(t)

\* A call of thread 2 has gone through the four events.
C5_Witness ==
    /\ calls[2] # <<>>
    /\ calls[2][1].cb \in ValidCallables
    /\ Names(calls[2][1]) = ForwardOrder
    /\ stack[2] = <<>>

\* --------------------------------------------------------------------- C6
\* What holds of failures whatever the callable.
FailThrough ==
    /\ \A id \in CallIds :
          LET c == CallOf(id)
          IN /\ \A k \in At(c, "cb_fail") :
                   /\ k = Len(c.ev)
                   /\ fault[id[1]] = [site |-> "callable", kind |-> c.ev[k].kind,
                                      cb |-> c.cb]
             /\ \A k \in At(c, "ub_fault") :
                   /\ k = Len(c.ev)
                   /\ fault[id[1]].site = "call_site"
                   /\ fault[id[1]].cb = c.cb
             /\ (c.cb \in InvalidCallables /\ Len(c.ev) >= 2) =>
                   c.ev[2].e \in {"ub_fault", "ub_stray"}
    /\ \A t \in Threads :
          /\ fault[t].site = "callable" =>
                /\ stack[t] # <<>>
                /\ Top(t).fn = "cb"
                /\ At(calls[t][Top(t).idx], "cb_fail") # {}
                /\ fault[t].kind \in FailKinds
          /\ fault[t].site = "call_site" =>
                /\ stack[t] # <<>>
                /\ Top(t).fn = "tramp"
                /\ Top(t).pc = "entry"
                /\ Top(t).cb \in InvalidCallables
          /\ fault[t] # NoFault =>
                \A i \in 1..Len(stack[t]) :
                   ~Returned(calls[t][stack[t][i].idx])

\* The claim as written: a call through a null or invalid callable faults
\* at the trampoline's call site.
C6_Original ==
    /\ FailThrough
    /\ \A id \in CallIds :
          (CallOf(id).cb \in InvalidCallables /\ Len(CallOf(id).ev) >= 2) =>
             CallOf(id).ev[2].e = "ub_fault"

\* C6: the trampoline makes no check and reports no error of its own: a
\* failure of the callable stops the thread inside the callable with the
\* callable's own kind of failure, the trampoline does not resume or
\* return; a call through the null callable faults at the call site; a
\* call through another invalid callable is still attempted and either
\* faults at the call site or strays into whatever the value points at.
C6_FailThrough ==
    /\ FailThrough
    /\ \A id \in CallIds :
          (CallOf(id).cb = "NULL" /\ Len(CallOf(id).ev) >= 2) =>
             CallOf(id).ev[2].e = "ub_fault"

\* One thread is stopped inside a callable that aborted, another at the
\* call site of a call through the null callable.
C6_Witness ==
    \E t, u \in Threads :
       /\ fault[t].site = "callable"
       /\ fault[t].kind = "abort"
       /\ fault[u].site = "call_site"
       /\ fault[u].cb = "NULL"

\* --------------------------------------------------------------------- C7
\* C7: nothing is retried or recovered: within one call the callable is
\* entered at most once whatever its outcome, only the supplied callable is
\* entered, and a failure of the callable is the last event of the call.
C7_NoRetry ==
    \A id \in CallIds :
       LET c == CallOf(id)
       IN /\ Cardinality(At(c, "cb_enter")) <= 1
          /\ \A k \in At(c, "cb_enter") : c.ev[k].cb = c.cb
          /\ At(c, "cb_fail") # {} =>
                /\ Names(c) = FailOrder
                /\ fault[id[1]] # NoFault

\* A callable was entered once, trapped, and the call ended there.
C7_Witness ==
    \E id \in CallIds :
       /\ Names(CallOf(id)) = FailOrder
       /\ CallOf(id).ev[3].kind = "trap"
       /\ fault[id[1]].kind = "trap"

\* --------------------------------------------------------------------- C8
\* A step that changes what the callables recorded or the caller's objects
\* is a step of a callable's body, and changes only that callable's record
\* and the object behind its own context.
EffectsByCallablesOnly ==
    (recorded' # recorded \/ live' # live) =>
       \E t \in Threads :
          /\ stack[t] # <<>>
          /\ Top(t).fn = "cb"
          /\ Top(t).pc = "body"
          /\ stack'[t] = SetTopPc(stack[t], "ran")
          /\ \A f \in ValidCallables \ {Top(t).cb} : recorded'[f] = recorded[f]
          /\ live' \subseteq live
          /\ live \ live' \subseteq {Top(t).taskData}

\* A step of one thread leaves the other threads' stacks and faults alone.
StepsAreLocal ==
    \A t \in Threads :
       stack'[t] # stack[t] =>
          \A u \in Threads \ {t} : stack'[u] = stack[u] /\ fault'[u] = fault[u]

\* What the callable of a call observed depends on the call's triple only:
\* it is that triple, and two calls with the same triple, whatever calls
\* came before each, observed the same.
DependsOnOwnTripleOnly ==
    /\ \A id \in CallIds :
          LET c == CallOf(id)
          IN \A k \in At(c, "cb_enter") : OwnArgs(c, c.ev[k])
    /\ \A id1, id2 \in CallIds :
          LET c == CallOf(id1)
              d == CallOf(id2)
          IN (c.cb = d.cb /\ c.taskData = d.taskData /\ c.status = d.status
              /\ Len(c.ev) >= 2 /\ Len(d.ev) >= 2) =>
                /\ c.ev[2].e = d.ev[2].e \/ c.cb = "dangling"
                /\ c.ev[2].e = "cb_enter" =>
                      /\ c.ev[2].cb = d.ev[2].cb
                      /\ c.ev[2].ctx = d.ev[2].ctx
                      /\ c.ev[2].status = d.ev[2].status

\* C8: the trampoline is stateless and has no effect of its own: over any
\* sequence of calls, what the callables recorded and the caller's objects
\* change only in steps of the callables' bodies, a step touches only the
\* stack of the thread that takes it, and what a call's callable observes
\* depends on that call's triple and not on earlier calls.
C8_Stateless ==
    /\ []DependsOnOwnTripleOnly
    /\ [][EffectsByCallablesOnly /\ StepsAreLocal]_vars

\* A thread has made two calls in a row with triples that differ in every
\* component, both have returned, and the second observed its own triple.
C8_Witness ==
    \E t \in Threads :
       /\ Len(calls[t]) = 2
       /\ calls[t][2].parent = 0
       /\ calls[t][1].cb \in ValidCallables
       /\ calls[t][2].cb \in ValidCallables
       /\ calls[t][1].cb # calls[t][2].cb
       /\ calls[t][1].taskData # calls[t][2].taskData
       /\ calls[t][1].status # calls[t][2].status
       /\ Returned(calls[t][1])
       /\ Returned(calls[t][2])
       /\ OwnArgs(calls[t][2], calls[t][2].ev[2])

\* --------------------------------------------------------------------- C9
\* The calls made so far that supplied f.
SuppliedWith(f) == {id \in CallIds : CallOf(id).cb = f}

\* Nothing of a call that has returned is left on a stack.
NothingRetained ==
    \A id \in CallIds :
       Returned(CallOf(id)) =>
          \A i \in 1..Len(stack[id[1]]) : stack[id[1]][i].idx # id[2]

\* A callable has been entered once for every call that supplied it and
\* has executed line 7, so never more often than it was supplied, and as
\* often as it was supplied once all calls have returned.
EnteredAsSupplied ==
    \A f \in ValidCallables :
       /\ Entered(f) = Cardinality(Forwarded(f))
       /\ Entered(f) <= Cardinality(SuppliedWith(f))
       /\ Quiescent => Entered(f) = Cardinality(SuppliedWith(f))

\* Nothing happens on behalf of a call that has returned.
ReturnedIsFinal ==
    \A id \in CallIds :
       Returned(CallOf(id)) => calls'[id[1]][id[2]] = calls[id[1]][id[2]]

\* The caller's objects are never created, and released only by the body
\* of the callable that was passed the object.
ObjectsLeftAlone ==
    /\ live' \subseteq live
    /\ live' # live =>
          \E t \in Threads :
             /\ stack[t] # <<>>
             /\ Top(t).fn = "cb"
             /\ Top(t).pc = "body"
             /\ stack'[t] = SetTopPc(stack[t], "ran")
             /\ live \ live' = {Top(t).taskData}

\* C9: the trampoline does not retain the callable or the context past the
\* call: nothing of a returned call stays on a stack, nothing more happens
\* on its behalf, a callable is entered once per call that supplied it and
\* reached line 7 (as often as it was supplied once all calls have
\* returned), and the objects behind the contexts are neither created nor
\* released by the trampoline.
C9_NoRetention ==
    /\ [](NothingRetained /\ EnteredAsSupplied)
    /\ [][ReturnedIsFinal /\ ObjectsLeftAlone]_vars

\* The same callable was supplied by two calls with the same context, both
\* have returned, and it was entered twice.
C9_Witness ==
    /\ Quiescent
    /\ Cardinality(SuppliedWith("recB")) = 2
    /\ Entered("recB") = 2
    /\ \A id \in SuppliedWith("recB") :
          Returned(CallOf(id)) /\ CallOf(id).taskData = 4096

\* -------------------------------------------------------------------- C10
\* The calls made by a callable while it ran on behalf of another call.
NestedIds == {id \in CallIds : CallOf(id).parent # 0}

ParentOf(id) == calls[id[1]][CallOf(id).parent]

\* C10: when a callable calls the trampoline before it returns, the inner
\* callable is entered at most once, exactly once by the time the inner
\* call returns, with the inner triple; the inner call has returned before
\* the outer callable returns, so the outer call returns after both; and
\* the outer callable still holds its own context and status when it
\* returns.
C10_NestedReentrancy ==
    \A id \in NestedIds :
       LET c == CallOf(id)
           p == ParentOf(id)
       IN /\ At(p, "cb_enter") = {2}
          /\ OwnArgs(p, p.ev[2])
          /\ c.cb \in ValidCallables =>
                /\ At(c, "cb_enter") \subseteq {2}
                /\ \A k \in At(c, "cb_enter") : OwnArgs(c, c.ev[k])
                /\ Returned(c) => At(c, "cb_enter") = {2}
          /\ At(p, "cb_return") # {} => Returned(c)
          /\ \A k \in At(p, "cb_return") : OwnArgs(p, p.ev[k])
          /\ Returned(p) => (Returned(c) /\ At(p, "cb_return") # {})
          /\ FramesOwn(id[1])

\* A callable called the trampoline with a triple that differs from its own
\* in every component; the inner callable was entered, and both calls have
\* returned.
C10_Witness ==
    \E id \in NestedIds :
       LET c == CallOf(id)
           p == ParentOf(id)
       IN /\ c.cb \in ValidCallables
          /\ c.cb # p.cb
          /\ c.taskData # p.taskData
          /\ c.status # p.status
          /\ Names(c) = ForwardOrder
          /\ Names(p) = ForwardOrder

====
